---- MODULE Spec2Model ----
(***************************************************************************)
(* Model of the geogrid core of the GBP audit bot                          *)
(* (backend/app/services/geogrid.py): the grid generator and the scan      *)
(* statistics.                                                             *)
(*                                                                         *)
(* Numbers.  Python floats are modelled by exact fixed-point and rational  *)
(* arithmetic:                                                             *)
(*   - a centre coordinate is an integer count of 1e-7 degrees;            *)
(*   - radius_km is an integer count of 0.001 km (radius_km * 1000);       *)
(*   - a length in metres or a displacement in degrees is a rational       *)
(*     <<numerator, denominator>> with a positive denominator;             *)
(*   - round(x, 6) yields an integer count of 1e-6 degrees and             *)
(*     round(x, 2) an integer count of hundredths, both rounding half to   *)
(*     even as Python's round does.                                        *)
(* An optional rank (int | None) is a sequence of length 0 or 1.           *)
(***************************************************************************)
EXTENDS Integers, Sequences, FiniteSets, TLC

VARIABLES
    fn,                     \* the function of the current (or last) call
    args,                   \* its arguments, a record
    pc,                     \* "idle", "loop", "returned" or "raised"
    step_distance_m,        \* generate_geogrid locals (geogrid.py:75-91)
    half_size,
    meters_per_lng_degree,
    row,
    col,
    points,
    result,                 \* what the call returned or raised
    settings,               \* app.config.Settings: serp_batch_size and API key
    serp,                   \* the answer of the SERP API to the lookup of each point
    user,                   \* current_user: credits_balance
    scan,                   \* the Scan of the request (None before it is created)
    scan_points,            \* the ScanPoints persisted for the scan
    es,                     \* execute_search: position, locals and response
    ps,                     \* process_grid_search: position, arguments and locals
    pending,                \* positions of the batch whose lookup is in flight
    batch_results,          \* what asyncio.gather has collected for the batch
    log,                    \* counts of lookups per point, batches and delays
    db,                     \* committed rows: the user's balance and the scans
    requests,               \* concurrent execute_search requests of one user
    store,                  \* the tables the reading endpoints query
    reply                   \* the last response of a reading endpoint

coreVars == <<fn, args, pc, step_distance_m, half_size, meters_per_lng_degree,
              row, col, points, result>>

searchVars == <<settings, serp, user, scan, scan_points, es, ps, pending,
                batch_results, log>>

concVars == <<db, requests>>

reportVars == <<store, reply>>

vars == <<coreVars, searchVars, concVars, reportVars>>

---------------------------------------------------------------------------
(* Bounds of the explored inputs *)

MaxGridSize == 9
MaxRank == 11
MaxLen == 3

GridSizeArgs == (-1)..MaxGridSize

\* radius_km in units of 0.001 km: -1, 0, 0.001, 0.5, 2, 50, 50.001, 100 km
RadiusArgs == {-1000, 0, 1, 500, 2000, 50000, 50001, 100000}

\* centre latitudes in 1e-7 degrees: 0, 60, -60, 36.8698976, -53.1301024
CenterLatArgs == {0, 600000000, -600000000, 368698976, -531301024}

\* centre longitudes in 1e-7 degrees: -43.1825, 0.1234567, 179.9999995
CenterLngArgs == {-431825000, 1234567, 1799999995}

---------------------------------------------------------------------------
(* Optional values and results *)

None == <<>>
Some(v) == <<v>>

OptRanks == {None} \cup {Some(v) : v \in 1..MaxRank}
RankSeqs == UNION {[1..n -> OptRanks] : n \in 0..MaxLen}

Return(v) == [kind |-> "return", value |-> v]
Raise(exc, msg) == [kind |-> "raise", exc |-> exc, msg |-> msg]
NoResult == [kind |-> "none"]

---------------------------------------------------------------------------
(* Arithmetic helpers *)

METERS_PER_LAT_DEGREE == 111111

\* math.cos(math.radians(center_lat)) as a rational, for the latitudes of
\* CenterLatArgs (cos 36.8698976 = 0.8 and cos 53.1301024 = 0.6 to 1e-8)
cos_radians(lat) ==
    CASE lat = 0 -> <<1, 1>>
      [] lat = 600000000 -> <<1, 2>>
      [] lat = -600000000 -> <<1, 2>>
      [] lat = 368698976 -> <<4, 5>>
      [] lat = -531301024 -> <<3, 5>>

\* n / d rounded to the nearest integer, half to even (d > 0)
RoundHalfEven(n, d) ==
    LET q == n \div d
        r == n % d
    IN  IF 2 * r < d THEN q
        ELSE IF 2 * r > d THEN q + 1
        ELSE IF q % 2 = 0 THEN q ELSE q + 1

\* long division: <<q, r>> with n * 10^digits = q * d + r and 0 <= r < d
RECURSIVE ScaleDiv(_, _, _)
ScaleDiv(n, d, digits) ==
    IF digits = 0 THEN <<n \div d, n % d>>
    ELSE LET p == ScaleDiv(n, d, digits - 1)
         IN  <<p[1] * 10 + (p[2] * 10) \div d, (p[2] * 10) % d>>

\* round(center + delta, 6): center in 1e-7 degrees, delta a rational number
\* of degrees; the result counts 1e-6 degrees
round6(center, delta) ==
    LET m == ScaleDiv(delta[1], delta[2], 6)
        whole == (center \div 10) + m[1]
        den == 10 * delta[2]
        num == (center % 10) * delta[2] + 10 * m[2]
        base == whole + (num \div den)
        r == num % den
    IN  IF 2 * r < den THEN base
        ELSE IF 2 * r > den THEN base + 1
        ELSE IF base % 2 = 0 THEN base ELSE base + 1

---------------------------------------------------------------------------
(* generate_geogrid (geogrid.py:31-113) *)

GridPoint(x, y, latitude, longitude, label) ==
    [x |-> x, y |-> y, latitude |-> latitude, longitude |-> longitude,
     label |-> label]

\* the label with row and column exchanged
label_of_swapped(r, c) == <<"Ponto", c, r>>

\* f"Ponto_{row}_{col}": the prefix and the two numbers the "_" joins
label_of(r, c) == <<"Ponto", r, c>>

\* a range check in place of the membership test
grid_size_valid_range(grid_size) == 3 <= grid_size /\ grid_size <= 7

\* geogrid.py:66
grid_size_valid(grid_size) == grid_size \in {3, 5, 7}

\* geogrid.py:69, radius_km <= 0
radius_not_positive(radius_km) == radius_km <= 0

\* the limit itself refused
radius_too_large_inclusive(radius_km) == radius_km >= 50 * 1000

\* geogrid.py:72, radius_km > 50
radius_too_large(radius_km) == radius_km > 50 * 1000

\* the diameter divided by the points of a row, not by the intervals
step_distance_per_point(radius_km, grid_size) == <<radius_km * 2, grid_size>>

\* geogrid.py:79, (radius_km * 2000) / (grid_size - 1) metres
step_distance(radius_km, grid_size) == <<radius_km * 2, grid_size - 1>>

\* the halving left out
half_of_unhalved(grid_size) == grid_size - 1

\* geogrid.py:82, (grid_size - 1) / 2
half_of(grid_size) == (grid_size - 1) \div 2

\* geogrid.py:88, METERS_PER_LAT_DEGREE * cos(radians(center_lat))
lng_scale(center_lat) ==
    LET c == cos_radians(center_lat)
    IN  <<METERS_PER_LAT_DEGREE * c[1], c[2]>>

\* the sign of the latitude offset reversed
offset_lat_m_flipped(half, r, step) == <<(r - half) * step[1], step[2]>>

\* geogrid.py:94, metres north of the centre
offset_lat_m(half, r, step) == <<(half - r) * step[1], step[2]>>

\* geogrid.py:95, metres east of the centre
offset_lng_m(half, c, step) == <<(c - half) * step[1], step[2]>>

\* geogrid.py:98, degrees of latitude
delta_lat(offset) == <<offset[1], offset[2] * METERS_PER_LAT_DEGREE>>

\* geogrid.py:99, degrees of longitude
delta_lng(offset, scale) == <<offset[1] * scale[2], offset[2] * scale[1]>>

\* x given the row and y the column
point_at_swapped(center_lat, center_lng, half, step, scale, r, c) ==
    [x |-> r, y |-> c,
     latitude |-> round6(center_lat, delta_lat(offset_lat_m(half, r, step))),
     longitude |-> round6(center_lng, delta_lng(offset_lng_m(half, c, step), scale)),
     label |-> label_of(r, c)]

\* geogrid.py:105-111, the point appended for (row, col)
point_at(center_lat, center_lng, half, step, scale, r, c) ==
    GridPoint(c, r,
              round6(center_lat, delta_lat(offset_lat_m(half, r, step))),
              round6(center_lng, delta_lng(offset_lng_m(half, c, step), scale)),
              label_of(r, c))

\* geogrid.py:90-91, the position after the body ran at (row, col)
next_col(c, grid_size) == IF c + 1 < grid_size THEN c + 1 ELSE 0
next_row(r, c, grid_size) == IF c + 1 < grid_size THEN r ELSE r + 1

ClearLocals ==
    /\ step_distance_m' = <<0, 1>>
    /\ half_size' = 0
    /\ meters_per_lng_degree' = <<0, 1>>
    /\ row' = 0
    /\ col' = 0
    /\ points' = <<>>

\* geogrid.py:66-88: the checks, then the locals set before the loops
generate_geogrid_enter(center_lat, center_lng, radius_km, grid_size) ==
    /\ fn' = "generate_geogrid"
    /\ args' = [center_lat |-> center_lat, center_lng |-> center_lng,
                radius_km |-> radius_km, grid_size |-> grid_size]
    /\ IF ~grid_size_valid(grid_size)
       THEN /\ pc' = "raised"
            /\ result' = Raise("ValueError", "Grid size must be 3, 5, or 7")
            /\ ClearLocals
       ELSE IF radius_not_positive(radius_km)
       THEN /\ pc' = "raised"
            /\ result' = Raise("ValueError", "Radius must be positive")
            /\ ClearLocals
       ELSE IF radius_too_large(radius_km)
       THEN /\ pc' = "raised"
            /\ result' = Raise("ValueError",
                               "Radius must not exceed 50km for accurate calculations")
            /\ ClearLocals
       ELSE /\ pc' = "loop"
            /\ result' = NoResult
            /\ points' = <<>>
            /\ step_distance_m' = step_distance(radius_km, grid_size)
            /\ half_size' = half_of(grid_size)
            /\ meters_per_lng_degree' = lng_scale(center_lat)
            /\ row' = 0
            /\ col' = 0

\* a call of generate_geogrid on any of the bounded arguments
generate_geogrid_call ==
    /\ pc = "idle"
    /\ \E center_lat \in CenterLatArgs, center_lng \in CenterLngArgs,
          radius_km \in RadiusArgs, grid_size \in GridSizeArgs :
            generate_geogrid_enter(center_lat, center_lng, radius_km, grid_size)
    /\ UNCHANGED searchVars
    /\ UNCHANGED concVars
    /\ UNCHANGED reportVars

\* geogrid.py:90-111: one pass of the inner loop body
generate_geogrid_step ==
    /\ pc = "loop"
    /\ row < args.grid_size
    /\ points' = Append(points,
                        point_at(args.center_lat, args.center_lng, half_size,
                                 step_distance_m, meters_per_lng_degree, row, col))
    /\ col' = next_col(col, args.grid_size)
    /\ row' = next_row(row, col, args.grid_size)
    /\ UNCHANGED <<fn, args, pc, step_distance_m, half_size,
                   meters_per_lng_degree, result>>
    /\ UNCHANGED searchVars
    /\ UNCHANGED concVars
    /\ UNCHANGED reportVars

\* geogrid.py:113
generate_geogrid_return ==
    /\ pc = "loop"
    /\ row >= args.grid_size
    /\ pc' = "returned"
    /\ result' = Return(points)
    /\ UNCHANGED <<fn, args, step_distance_m, half_size,
                   meters_per_lng_degree, row, col, points>>
    /\ UNCHANGED searchVars
    /\ UNCHANGED concVars
    /\ UNCHANGED reportVars

---------------------------------------------------------------------------
(* estimate_credits (geogrid.py:116-139) *)

\* grid_size * 2 in place of the square
estimate_credits_linear(grid_size) ==
    IF grid_size \notin {3, 5, 7}
    THEN Raise("ValueError", "Grid size must be 3, 5, or 7")
    ELSE Return(grid_size * 2)

estimate_credits(grid_size) ==
    IF ~grid_size_valid(grid_size)
    THEN Raise("ValueError", "Grid size must be 3, 5, or 7")
    ELSE Return(grid_size * grid_size)

Finish(f, a, res) ==
    /\ fn' = f
    /\ args' = a
    /\ result' = res
    /\ pc' = IF res.kind = "raise" THEN "raised" ELSE "returned"
    /\ ClearLocals
    /\ UNCHANGED searchVars
    /\ UNCHANGED concVars
    /\ UNCHANGED reportVars

estimate_credits_call ==
    /\ pc = "idle"
    /\ \E grid_size \in GridSizeArgs :
          Finish("estimate_credits", [grid_size |-> grid_size],
                 estimate_credits(grid_size))

---------------------------------------------------------------------------
(* The statistics (geogrid.py:177-252) *)

RECURSIVE sum(_)
sum(s) == IF s = <<>> THEN 0 ELSE Head(s)[1] + sum(Tail(s))

is_not_none(r) == r # None

\* the sum of the present ranks divided by the number of all ranks
calculate_average_rank_all(ranks) ==
    LET valid_ranks == SelectSeq(ranks, is_not_none)
    IN  IF valid_ranks = <<>> THEN None
        ELSE Some(RoundHalfEven(100 * sum(valid_ranks), Len(ranks)))

\* geogrid.py:193-198; the mean counts hundredths
calculate_average_rank(ranks) ==
    LET valid_ranks == SelectSeq(ranks, is_not_none)
    IN  IF valid_ranks = <<>> THEN None
        ELSE Some(RoundHalfEven(100 * sum(valid_ranks), Len(valid_ranks)))

\* rank 3 left out
in_top3_strict(r) == r # None /\ r[1] < 3

in_top3(r) == r # None /\ r[1] <= 3

\* rank 11 counted as well
in_top10_loose(r) == r # None /\ r[1] <= 11

in_top10(r) == r # None /\ r[1] <= 10

\* geogrid.py:239
count_top3(ranks) == Len(SelectSeq(ranks, in_top3))

\* geogrid.py:252
count_top10(ranks) == Len(SelectSeq(ranks, in_top10))

calculate_average_rank_call ==
    /\ pc = "idle"
    /\ \E ranks \in RankSeqs :
          Finish("calculate_average_rank", [ranks |-> ranks], Return(calculate_average_rank(ranks)))

count_top3_call ==
    /\ pc = "idle"
    /\ \E ranks \in RankSeqs :
          Finish("count_top3", [ranks |-> ranks], Return(count_top3(ranks)))

count_top10_call ==
    /\ pc = "idle"
    /\ \E ranks \in RankSeqs :
          Finish("count_top10", [ranks |-> ranks], Return(count_top10(ranks)))

---------------------------------------------------------------------------
(* get_rank_color (geogrid.py:201-220) *)

\* the ranks get_rank_color is called with: None and the integers around
\* its two thresholds
ColorRankArgs == {None} \cup {Some(v) : v \in (-1)..(MaxRank + 10)}

\* rank 10 already red
get_rank_color_early_red(rank) ==
    IF rank = None \/ rank[1] >= 10 THEN "red"
    ELSE IF rank[1] <= 3 THEN "green"
    ELSE "yellow"

get_rank_color(rank) ==
    IF rank = None \/ rank[1] > 10 THEN "red"
    ELSE IF rank[1] <= 3 THEN "green"
    ELSE "yellow"

get_rank_color_call ==
    /\ pc = "idle"
    /\ \E rank \in ColorRankArgs :
          Finish("get_rank_color", [rank |-> rank], Return(get_rank_color(rank)))

\* rank 10 classified red
status_color_strict(rank_position) ==
    IF rank_position = None THEN "red"
    ELSE IF rank_position[1] <= 3 THEN "green"
    ELSE IF rank_position[1] < 10 THEN "yellow"
    ELSE "red"

\* models.py:154-163, ScanPoint.status_color
status_color(rank_position) ==
    IF rank_position = None THEN "red"
    ELSE IF rank_position[1] <= 3 THEN "green"
    ELSE IF rank_position[1] <= 10 THEN "yellow"
    ELSE "red"

\* heatmap.py:24-30
get_rank_color_hex(rank) ==
    IF rank = None \/ rank[1] > 10 THEN "#ef4444"
    ELSE IF rank[1] <= 3 THEN "#22c55e"
    ELSE "#eab308"

status_color_call ==
    /\ pc = "idle"
    /\ \E rank \in ColorRankArgs :
          Finish("status_color", [rank |-> rank], Return(status_color(rank)))

get_rank_color_hex_call ==
    /\ pc = "idle"
    /\ \E rank \in ColorRankArgs :
          Finish("get_rank_color_hex", [rank |-> rank],
                 Return(get_rank_color_hex(rank)))

---------------------------------------------------------------------------
(* calculate_visibility_score (geogrid.py:142-174) and                     *)
(* calculate_scan_stats (geogrid.py:274-301)                               *)

\* a sequence of n copies of v
Repeat(v, n) == [i \in 1..n |-> v]

\* the docstring example of calculate_visibility_score (geogrid.py:162) and
\* the mixed ranks of the tests (test_geogrid.py:158, 251)
DocExampleRanks ==
    <<Some(1), Some(1), Some(1), Some(2), Some(2), Some(2), Some(3), Some(3), Some(3)>>
TestMixedRanks ==
    <<Some(1), Some(2), Some(3), Some(5), Some(8), Some(10), Some(15), None, None>>
TestStatsRanks ==
    <<Some(1), Some(2), Some(3), Some(5), Some(8), Some(10), Some(12), None, None>>

\* the ranks the scores are computed on: the best, ranks at and beyond the
\* worst tracked rank 20, and None
ScoreRanks == {None} \cup {Some(v) : v \in {1, 2, 10, 20, 21}}
ScoreFills == {None, Some(1), Some(20)}
ScoreHeads == UNION {[1..n -> ScoreRanks] : n \in 0..MaxLen}

\* the ranks on either side of the limits of the colour classes, in
\* sequences long enough to hold each of them once
ClassRanks == {None} \cup {Some(v) : v \in {3, 4, 10, 11}}
ClassHeads == UNION {[1..n -> ClassRanks] : n \in 0..(MaxLen + 1)}

\* the <<ranks, grid_size>> pairs of the calls: short sequences with any
\* grid_size, and sequences of grid_size * grid_size ranks
ScoreArgs ==
    {<<h, g>> : h \in ScoreHeads, g \in GridSizeArgs}
    \cup {<<h \o Repeat(f, g * g - Len(h)), g>> :
            h \in ScoreHeads, f \in ScoreFills, g \in {3, 5, 7}}
    \cup {<<r, 3>> : r \in {DocExampleRanks, TestMixedRanks, TestStatsRanks}}
    \cup {<<h, 3>> : h \in ClassHeads}

\* an absent rank adding nothing to the sum
rank_or_zero(rank) == IF rank # None THEN rank[1] ELSE 0

\* geogrid.py:169, rank if rank is not None else 20
rank_or_worst(rank) == IF rank # None THEN rank[1] ELSE 20

\* a score outside [0, 100] left as it is
clamp_round_unclamped(n, d) == RoundHalfEven(10000 * n, d)

\* geogrid.py:169, sum(... for rank in ranks)
RECURSIVE rank_sum(_)
rank_sum(ranks) ==
    IF ranks = <<>> THEN 0
    ELSE rank_or_worst(Head(ranks)) + rank_sum(Tail(ranks))

\* geogrid.py:174, round(max(0, min(100, score)), 2) for score = 100 * n / d
\* with d > 0, in hundredths
clamp_round(n, d) ==
    IF n > d THEN 10000
    ELSE IF n < 0 THEN 0
    ELSE RoundHalfEven(10000 * n, d)

\* the formula of the docstring: max_score as the denominator
calculate_visibility_score_documented(ranks, grid_size) ==
    LET total_points == grid_size * grid_size
        max_score == total_points * 20
    IN  IF max_score = 0
        THEN Raise("ZeroDivisionError", "division by zero")
        ELSE Return(clamp_round(max_score - rank_sum(ranks), max_score))

\* geogrid.py:165-174; the score counts hundredths
calculate_visibility_score(ranks, grid_size) ==
    LET total_points == grid_size * grid_size
        max_score == total_points * 20
    IN  IF max_score - total_points = 0
        THEN Raise("ZeroDivisionError", "division by zero")
        ELSE Return(clamp_round(max_score - rank_sum(ranks),
                                max_score - total_points))

ScanStats(arp, top3, top10, visibility_score, total_points) ==
    [arp |-> arp, top3 |-> top3, top10 |-> top10,
     visibility_score |-> visibility_score, total_points |-> total_points]

\* top3 and top10 exchanged
calculate_scan_stats_swapped(ranks, grid_size) ==
    LET score == calculate_visibility_score(ranks, grid_size)
    IN  IF score.kind = "raise" THEN score
        ELSE Return(ScanStats(calculate_average_rank(ranks), count_top10(ranks),
                              count_top3(ranks), score.value,
                              grid_size * grid_size))

\* geogrid.py:295-301; an exception of calculate_visibility_score propagates
calculate_scan_stats(ranks, grid_size) ==
    LET score == calculate_visibility_score(ranks, grid_size)
    IN  IF score.kind = "raise" THEN score
        ELSE Return(ScanStats(calculate_average_rank(ranks), count_top3(ranks),
                              count_top10(ranks), score.value,
                              grid_size * grid_size))

calculate_visibility_score_call ==
    /\ pc = "idle"
    /\ \E a \in ScoreArgs :
          Finish("calculate_visibility_score",
                 [ranks |-> a[1], grid_size |-> a[2]],
                 calculate_visibility_score(a[1], a[2]))

calculate_scan_stats_call ==
    /\ pc = "idle"
    /\ \E a \in ScoreArgs :
          Finish("calculate_scan_stats",
                 [ranks |-> a[1], grid_size |-> a[2]],
                 calculate_scan_stats(a[1], a[2]))

---------------------------------------------------------------------------
(* The SERP lookups (serp.py) and the search endpoint (routers/search.py)   *)

\* the largest serp_batch_size configured; config.py:32 sets 5 by default
MaxBatchSize == 5

\* the longest list of points handed to process_grid_search directly
MaxPoints == 7

\* the project of the request: centre in 1e-7 degrees, radius in metres
ProjectLat == 368698976
ProjectLng == -431825000
ProjectRadius == 5000
ProjectGridSize == 5

\* generate_geogrid as one expression: the points of the loop in the order
\* the loop appends them, or the error of the failed check
geogrid(center_lat, center_lng, radius_km, grid_size) ==
    IF ~grid_size_valid(grid_size)
    THEN Raise("ValueError", "Grid size must be 3, 5, or 7")
    ELSE IF radius_not_positive(radius_km)
    THEN Raise("ValueError", "Radius must be positive")
    ELSE IF radius_too_large(radius_km)
    THEN Raise("ValueError", "Radius too large (max 50km)")
    ELSE Return([k \in 1..(grid_size * grid_size) |->
                   point_at(center_lat, center_lng, half_of(grid_size),
                            step_distance(radius_km, grid_size),
                            lng_scale(center_lat),
                            (k - 1) \div grid_size, (k - 1) % grid_size)])

\* the points of the largest grid of the project
SamplePoints == geogrid(ProjectLat, ProjectLng, ProjectRadius, 7).value

\* what the API answers to one lookup: a 200 response in which the business
\* stands at a position of local_results and of organic_results (None when
\* it is in neither), a response of another status, or a failed request
Ok(local, organic) == [kind |-> "ok", local |-> local, organic |-> organic]
Status(code) == [kind |-> "status", code |-> code]
Failed == [kind |-> "exception"]

\* three ways the API may answer the lookups of the points 1..49
SerpFound == [k \in 1..Len(SamplePoints) |-> Ok(Some(((k - 1) % 20) + 1), None)]
SerpAbsent == [k \in 1..Len(SamplePoints) |-> Ok(None, None)]
SerpMixed ==
    [k \in 1..Len(SamplePoints) |->
        IF k % 4 = 0 THEN Status(503)
        ELSE IF k % 4 = 1 THEN Failed
        ELSE IF k % 4 = 2 THEN Ok(None, Some((k % 7) + 1))
        ELSE Ok(Some(2), Some(1))]
SerpArgs == {SerpFound, SerpAbsent, SerpMixed}

SettingsArgs ==
    {[serp_batch_size |-> b, scale_serp_api_key |-> k] :
        b \in 1..MaxBatchSize, k \in {"", "key"}}

DefaultSettings == [serp_batch_size |-> 5, scale_serp_api_key |-> ""]

CreditArgs == {8, 25, 30, 100}

\* the longest list of results in a response; the request asks for the top
\* 20 (serp.py:59), which the code does not enforce on the response
MaxResults == 21

\* the longest list of results built from every kind of item
MaxItems == 2

\* str.lower() on the letters of the model's strings (sequences of letters)
lower_char(c) ==
    CASE c = "A" -> "a"
      [] c = "B" -> "b"
      [] OTHER -> c
lower(str) == [i \in 1..Len(str) |-> lower_char(str[i])]

\* Python's `sub in str`
contains(sub, str) ==
    \E i \in 0..(Len(str) - Len(sub)) : SubSeq(str, i + 1, i + Len(sub)) = sub

\* dict.get(key, default) of a key that may be absent
get(value, default) == IF value = None THEN default ELSE value[1]

\* an item of local_results or organic_results: its title and its name,
\* either of which may be missing
ResultItem(title, name) == [title |-> title, name |-> name]

ItemTitleMatch == ResultItem(Some(<<"B", "A", "b">>), None)
ItemNameMatch == ResultItem(Some(<<"b", "a">>), Some(<<"A", "B">>))
ItemOther == ResultItem(Some(<<"b", "b">>), Some(<<"a">>))
ItemEmpty == ResultItem(None, None)
ItemArgs == {ItemTitleMatch, ItemNameMatch, ItemOther, ItemEmpty}

BusinessNameArgs == {<<"a", "b">>, <<"A", "B">>, <<>>}

\* lists of results: every short list, and lists in which the business
\* comes after n other results
ResultListArgs ==
    UNION {[1..n -> ItemArgs] : n \in 0..MaxItems}
    \cup {Repeat(ItemOther, n) \o <<ItemNameMatch, ItemTitleMatch>> :
            n \in 0..(MaxResults - 1)}

\* the JSON of a 200 response: its two lists, either of which may be absent
SerpDataArgs ==
    {[local_results |-> l, organic_results |-> o] :
        l \in {None} \cup {Some(x) : x \in ResultListArgs},
        o \in {None} \cup {Some(x) : x \in ResultListArgs}}

\* the title alone compared
matches_title_only(item, business_lower) ==
    contains(business_lower, lower(get(item.title, <<>>)))

\* serp.py:131-136, the test of one result
matches(item, business_lower) ==
    \/ contains(business_lower, lower(get(item.title, <<>>)))
    \/ contains(business_lower, lower(get(item.name, <<>>)))

\* serp.py:115-138, the loop from position idx (from 0) on
RECURSIVE find_from(_, _, _)
find_from(results, business_lower, idx) ==
    IF idx >= Len(results) THEN None
    ELSE IF matches(results[idx + 1], business_lower) THEN Some(idx + 1)
    ELSE find_from(results, business_lower, idx + 1)

\* serp.py:115-138, _find_business_in_results
find_business_in_results(results, business_name) ==
    find_from(results, lower(business_name), 0)

\* serp.py:80-93, the positions of the business in the two lists of the data
scan_results(data, business_name) ==
    Ok(find_business_in_results(get(data.local_results, <<>>), business_name),
       find_business_in_results(get(data.organic_results, <<>>), business_name))

\* serp.py:19-27
RankResult(grid_x, grid_y, latitude, longitude, rank_position, serp_data) ==
    [grid_x |-> grid_x, grid_y |-> grid_y, latitude |-> latitude,
     longitude |-> longitude, rank_position |-> rank_position,
     serp_data |-> serp_data]

\* serp.py:83-93, the position in local_results, else in organic_results
rank_in(response) ==
    IF response.local # None THEN response.local ELSE response.organic

\* the status of the response left unchecked: its body is kept as the data
fetch_rank_at_point_unchecked(point, response) ==
    IF response.kind = "exception"
    THEN RankResult(point.x, point.y, point.latitude, point.longitude,
                    None, [error |-> <<"exception">>])
    ELSE IF response.kind = "status"
    THEN RankResult(point.x, point.y, point.latitude, point.longitude,
                    None, response)
    ELSE RankResult(point.x, point.y, point.latitude, point.longitude,
                    rank_in(response), response)

\* serp.py:30-112, the result of the lookup of one point
fetch_rank_at_point(point, response) ==
    IF response.kind = "exception"
    THEN RankResult(point.x, point.y, point.latitude, point.longitude,
                    None, [error |-> <<"exception">>])
    ELSE IF response.kind = "status"
    THEN RankResult(point.x, point.y, point.latitude, point.longitude,
                    None, [error |-> <<"API returned", response.code>>])
    ELSE RankResult(point.x, point.y, point.latitude, point.longitude,
                    rank_in(response), response)

\* serp.py:30-102, one lookup that got a 200 response with the given data
fetch_rank_at_point_call ==
    /\ pc = "idle"
    /\ \E data \in SerpDataArgs, business_name \in BusinessNameArgs :
          Finish("fetch_rank_at_point",
                 [business_name |-> business_name, data |-> data],
                 Return(fetch_rank_at_point(SamplePoints[1],
                                            scan_results(data, business_name))))

\* serp.py:195-205
extract_ranks_from_results(results) ==
    [k \in 1..Len(results) |-> results[k].rank_position]

\* the batch one point short
batch_of_short(n, i, batch_size) ==
    {k \in 1..n : i < k /\ k < i + batch_size}

\* serp.py:174, points[i:i + batch_size] as positions of points (from 1)
batch_of(n, i, batch_size) ==
    {k \in 1..n : i < k /\ k <= i + batch_size}

\* the result stored in the order in which the lookups complete
gather_slot_by_completion(position, completed) == completed + 1

\* serp.py:185, asyncio.gather returns the results in the order of its
\* arguments: the slot of the lookup at a position of the batch, when
\* `completed` lookups of the batch finished before it
gather_slot(position, completed) == position

\* a delay after every batch that is full
delay_follows_full(n, i, batch_size) == i + batch_size <= n

\* serp.py:189, a delay follows the batch unless it is the last one
delay_follows(n, i, batch_size) == i + batch_size < n

\* process_grid_search before it is called
PsIdle ==
    [pc |-> "idle", points |-> <<>>, api_key |-> "", key |-> "",
     batch_size |-> 0, i |-> 0, results |-> <<>>, result |-> NoResult]

\* process_grid_search called with points and api_key
PsCalled(pts, api_key) == [PsIdle EXCEPT !.pc = "called", !.points = pts,
                                         !.api_key = api_key]

EsIdle ==
    [pc |-> "idle", grid_size |-> 0, credits_required |-> 0,
     points |-> <<>>, response |-> NoResult,
     balance_at_call |-> 0, db_error |-> FALSE]

\* nothing looked up yet: lookups issued per point, batches started, delays
\* elapsed, and whether a lookup ended before one of an earlier point
LogEmpty == [issued |-> [k \in 1..Len(SamplePoints) |-> 0],
             batches |-> 0, delays |-> 0, overtaken |-> FALSE]

\* a call of process_grid_search on the first n points of the largest grid
process_grid_search_call ==
    /\ es.pc = "idle"
    /\ ps.pc = "idle"
    /\ \E n \in 0..MaxPoints, api_key \in {"", "key"} :
            ps' = PsCalled(SubSeq(SamplePoints, 1, n), api_key)
    /\ UNCHANGED <<settings, serp, user, scan, scan_points, es, pending,
                   batch_results, log>>
    /\ UNCHANGED coreVars
    /\ UNCHANGED concVars
    /\ UNCHANGED reportVars

\* serp.py:164-171, the key is resolved and the settings are read
process_grid_search_enter ==
    /\ ps.pc = "called"
    /\ LET key == IF ps.api_key # "" THEN ps.api_key
                  ELSE settings.scale_serp_api_key
       IN  IF key = ""
           THEN ps' = [ps EXCEPT !.pc = "raised",
                         !.result = Raise("ValueError",
                                          "Scale SERP API key is required")]
           ELSE ps' = [ps EXCEPT !.pc = "loop", !.key = key, !.i = 0,
                         !.results = <<>>,
                         !.batch_size = settings.serp_batch_size]
    /\ UNCHANGED <<settings, serp, user, scan, scan_points, es, pending,
                   batch_results, log>>
    /\ UNCHANGED coreVars
    /\ UNCHANGED concVars
    /\ UNCHANGED reportVars

\* serp.py:173-185, the next batch is cut and its lookups are started
process_grid_search_batch ==
    /\ ps.pc = "loop"
    /\ ps.i < Len(ps.points)
    /\ LET batch == batch_of(Len(ps.points), ps.i, ps.batch_size)
       IN  /\ pending' = batch
           /\ batch_results' = [j \in 1..Cardinality(batch) |-> None]
           /\ log' = [log EXCEPT
                        !.issued = [k \in DOMAIN log.issued |->
                                      IF k \in batch THEN log.issued[k] + 1
                                      ELSE log.issued[k]],
                        !.batches = log.batches + 1]
    /\ ps' = [ps EXCEPT !.pc = "gather"]
    /\ UNCHANGED <<settings, serp, user, scan, scan_points, es>>
    /\ UNCHANGED coreVars
    /\ UNCHANGED concVars
    /\ UNCHANGED reportVars

\* serp.py:30-112 under asyncio.gather: one of the lookups in flight ends,
\* in any order, and its result is kept for the batch
fetch_rank_at_point_done ==
    /\ ps.pc = "gather"
    /\ \E k \in pending :
        /\ pending' = pending \ {k}
        /\ batch_results' =
             [batch_results EXCEPT
                ![gather_slot(k - ps.i, Len(batch_results) - Cardinality(pending))]
                    = Some(fetch_rank_at_point(ps.points[k], serp[k]))]
        /\ log' = [log EXCEPT
                     !.overtaken = log.overtaken \/ \E j \in pending : j < k]
    /\ UNCHANGED <<settings, serp, user, scan, scan_points, es, ps>>
    /\ UNCHANGED coreVars
    /\ UNCHANGED concVars
    /\ UNCHANGED reportVars

\* serp.py:185-190, every lookup of the batch ended: the results are
\* appended and the delay starts unless this was the last batch
process_grid_search_extend ==
    /\ ps.pc = "gather"
    /\ pending = {}
    /\ LET extended == ps.results \o
                         [j \in 1..Len(batch_results) |-> batch_results[j][1]]
       IN  IF delay_follows(Len(ps.points), ps.i, ps.batch_size)
           THEN ps' = [ps EXCEPT !.pc = "sleep", !.results = extended]
           ELSE ps' = [ps EXCEPT !.pc = "loop", !.results = extended,
                         !.i = ps.i + ps.batch_size]
    /\ batch_results' = <<>>
    /\ UNCHANGED <<settings, serp, user, scan, scan_points, es, pending, log>>
    /\ UNCHANGED coreVars
    /\ UNCHANGED concVars
    /\ UNCHANGED reportVars

\* serp.py:190, asyncio.sleep(delay) ends
process_grid_search_wake ==
    /\ ps.pc = "sleep"
    /\ ps' = [ps EXCEPT !.pc = "loop", !.i = ps.i + ps.batch_size]
    /\ log' = [log EXCEPT !.delays = log.delays + 1]
    /\ UNCHANGED <<settings, serp, user, scan, scan_points, es, pending,
                   batch_results>>
    /\ UNCHANGED coreVars
    /\ UNCHANGED concVars
    /\ UNCHANGED reportVars

\* serp.py:173 and 192, the range is exhausted
process_grid_search_return ==
    /\ ps.pc = "loop"
    /\ ps.i >= Len(ps.points)
    /\ ps' = [ps EXCEPT !.pc = "returned", !.result = Return(ps.results)]
    /\ UNCHANGED <<settings, serp, user, scan, scan_points, es, pending,
                   batch_results, log>>
    /\ UNCHANGED coreVars
    /\ UNCHANGED concVars
    /\ UNCHANGED reportVars

\* models.py:95-122, the Scan created at search.py:88-95
Scan(grid_size, credits_used, status) ==
    [grid_size |-> grid_size, credits_used |-> credits_used,
     status |-> status, average_rank |-> None, top3_count |-> 0,
     top10_count |-> 0, visibility_score |-> None]

\* models.py:125-152
ScanPoint(grid_x, grid_y, latitude, longitude, rank_position, serp_data) ==
    [grid_x |-> grid_x, grid_y |-> grid_y, latitude |-> latitude,
     longitude |-> longitude, rank_position |-> rank_position,
     serp_data |-> serp_data]

\* the column and the row of the result exchanged
scan_point_of_swapped(r) ==
    ScanPoint(r.grid_y, r.grid_x, r.latitude, r.longitude, r.rank_position,
              r.serp_data)

\* search.py:110-118; Decimal(str(x)) of a float of six decimals is that
\* number, and the columns keep eight decimals: the stored coordinate is the
\* same number of micro-degrees
scan_point_of(r) ==
    ScanPoint(r.grid_x, r.grid_y, r.latitude, r.longitude, r.rank_position,
              r.serp_data)

HTTPException(status_code, detail) ==
    [kind |-> "raise", exc |-> "HTTPException", status_code |-> status_code,
     msg |-> detail]

\* request.grid_size: absent, or one of the sizes schemas.py admits
RequestGridSizeArgs == {None, Some(3), Some(5), Some(7)}

\* a balance equal to the price rejected as well
insufficient_credits_inclusive(balance, credits_required) ==
    balance <= credits_required

\* search.py:72
insufficient_credits(balance, credits_required) ==
    balance < credits_required

\* search.py:51-97, up to the flush of the new Scan
execute_search_call ==
    /\ es.pc = "idle"
    /\ ps.pc = "idle"
    /\ \E found \in BOOLEAN, request_grid_size \in RequestGridSizeArgs :
        LET grid_size == IF request_grid_size # None THEN request_grid_size[1]
                         ELSE ProjectGridSize
            credits == estimate_credits(grid_size)
            grid == geogrid(ProjectLat, ProjectLng, ProjectRadius, grid_size)
            called == [es EXCEPT !.balance_at_call = user.credits_balance]
        IN  IF ~found
            THEN /\ es' = [called EXCEPT !.pc = "raised",
                             !.response = HTTPException(404, "Project not found")]
                 /\ scan' = scan
            ELSE IF credits.kind = "raise"
            THEN /\ es' = [called EXCEPT !.pc = "raised", !.response = credits]
                 /\ scan' = scan
            ELSE IF insufficient_credits(user.credits_balance, credits.value)
            THEN /\ es' = [called EXCEPT !.pc = "raised", !.grid_size = grid_size,
                             !.credits_required = credits.value,
                             !.response = HTTPException(402, "Insufficient credits")]
                 /\ scan' = scan
            ELSE IF grid.kind = "raise"
            THEN /\ es' = [called EXCEPT !.pc = "raised", !.response = grid]
                 /\ scan' = scan
            ELSE /\ es' = [called EXCEPT !.pc = "flushed", !.grid_size = grid_size,
                             !.credits_required = credits.value,
                             !.points = grid.value]
                 /\ scan' = Some(Scan(grid_size, credits.value, "running"))
    /\ UNCHANGED <<settings, serp, user, scan_points, ps, pending,
                   batch_results, log>>
    /\ UNCHANGED coreVars
    /\ UNCHANGED concVars
    /\ UNCHANGED reportVars

\* search.py:101-105, process_grid_search is called without an api_key
execute_search_search ==
    /\ es.pc = "flushed"
    /\ es' = [es EXCEPT !.pc = "searching"]
    /\ ps' = PsCalled(es.points, "")
    /\ UNCHANGED <<settings, serp, user, scan, scan_points, pending,
                   batch_results, log>>
    /\ UNCHANGED coreVars
    /\ UNCHANGED concVars
    /\ UNCHANGED reportVars

\* search.py:107-136, the results are saved, the metrics computed, the
\* credits deducted and all of it committed
execute_search_complete ==
    /\ es.pc = "searching"
    /\ ps.pc = "returned"
    /\ LET results == ps.result.value
           ranks == extract_ranks_from_results(results)
           stats == calculate_scan_stats(ranks, es.grid_size)
       IN  IF stats.kind = "raise"
           THEN /\ scan' = Some([scan[1] EXCEPT !.status = "failed"])
                /\ scan_points' = [k \in 1..Len(results) |-> scan_point_of(results[k])]
                /\ user' = user
                /\ es' = [es EXCEPT !.pc = "raised",
                            !.response = HTTPException(500, "Search execution failed")]
           ELSE /\ scan' = Some([scan[1] EXCEPT
                                   !.average_rank =
                                       IF stats.value.arp # None /\ stats.value.arp # Some(0)
                                       THEN stats.value.arp ELSE None,
                                   !.top3_count = stats.value.top3,
                                   !.top10_count = stats.value.top10,
                                   !.visibility_score = Some(stats.value.visibility_score),
                                   !.status = "completed"])
                /\ scan_points' = [k \in 1..Len(results) |-> scan_point_of(results[k])]
                /\ user' = [user EXCEPT
                              !.credits_balance = user.credits_balance - es.credits_required]
                /\ es' = [es EXCEPT !.pc = "committed"]
    /\ UNCHANGED <<settings, serp, ps, pending, batch_results, log>>
    /\ UNCHANGED coreVars
    /\ UNCHANGED concVars
    /\ UNCHANGED reportVars

\* search.py:137-164, the scan is read back and the response is built
execute_search_respond ==
    /\ es.pc = "committed"
    /\ es' = [es EXCEPT !.pc = "returned", !.response = Return(scan)]
    /\ UNCHANGED <<settings, serp, user, scan, scan_points, ps, pending,
                   batch_results, log>>
    /\ UNCHANGED coreVars
    /\ UNCHANGED concVars
    /\ UNCHANGED reportVars

\* search.py:137 and 166-172, reading the scan back from the database
\* raises after the commit: the handler of the try block marks the scan
\* failed and commits again, which the database accepts or not
execute_search_refresh_fail ==
    /\ es.pc = "committed"
    /\ \E recommitted \in BOOLEAN :
            scan' = IF recommitted
                    THEN Some([scan[1] EXCEPT !.status = "failed"])
                    ELSE scan
    /\ es' = [es EXCEPT !.pc = "raised", !.db_error = TRUE,
                !.response = HTTPException(500, "Search execution failed")]
    /\ UNCHANGED <<settings, serp, user, scan_points, ps, pending,
                   batch_results, log>>
    /\ UNCHANGED coreVars
    /\ UNCHANGED concVars
    /\ UNCHANGED reportVars

\* search.py:166-172, the search raised: the scan is marked failed
execute_search_fail ==
    /\ es.pc = "searching"
    /\ ps.pc = "raised"
    /\ scan' = Some([scan[1] EXCEPT !.status = "failed"])
    /\ es' = [es EXCEPT !.pc = "raised",
                !.response = HTTPException(500, "Search execution failed")]
    /\ UNCHANGED <<settings, serp, user, scan_points, ps, pending,
                   batch_results, log>>
    /\ UNCHANGED coreVars
    /\ UNCHANGED concVars
    /\ UNCHANGED reportVars

---------------------------------------------------------------------------
(* Concurrent requests to the search endpoint by one user (search.py)      *)

\* the most requests in flight at once
MaxRequests == 2

Requests == 1..MaxRequests

\* the rows committed to the database: the user's credits_balance, the
\* status and credits_used of the scan of each request, and the balance
\* before the first request
DbOf(balance) ==
    [balance |-> balance, scans |-> [r \in Requests |-> None],
     initial |-> balance]

\* a request not yet received: its position, its locals and the
\* credits_balance of the User object of its session
RequestIdle ==
    [pc |-> "idle", grid_size |-> 0, credits_required |-> 0,
     credits_balance |-> 0, status_code |-> 0]

\* the dependency get_current_user: the session of the request loads the
\* user's row
get_current_user(r) ==
    /\ requests[r].pc = "idle"
    /\ requests' = [requests EXCEPT ![r].pc = "authenticated",
                                    ![r].credits_balance = db.balance]
    /\ db' = db
    /\ UNCHANGED <<coreVars, searchVars, reportVars>>

\* search.py:51-97, the credit check against the loaded user and the flush
\* of the running Scan, uncommitted
request_execute_search(r) ==
    /\ requests[r].pc = "authenticated"
    /\ \E request_grid_size \in RequestGridSizeArgs :
        LET grid_size == IF request_grid_size # None THEN request_grid_size[1]
                         ELSE ProjectGridSize
            credits == estimate_credits(grid_size).value
        IN  IF insufficient_credits(requests[r].credits_balance, credits)
            THEN requests' = [requests EXCEPT ![r].pc = "raised",
                                ![r].grid_size = grid_size,
                                ![r].credits_required = credits,
                                ![r].status_code = 402]
            ELSE requests' = [requests EXCEPT ![r].pc = "searching",
                                ![r].grid_size = grid_size,
                                ![r].credits_required = credits]
    /\ db' = db
    /\ UNCHANGED <<coreVars, searchVars, reportVars>>

\* search.py:101-136, the lookups ended: the price is subtracted from the
\* balance of the loaded user and the commit writes that balance and the
\* completed scan
request_complete(r) ==
    /\ requests[r].pc = "searching"
    /\ LET balance == requests[r].credits_balance - requests[r].credits_required
       IN  /\ requests' = [requests EXCEPT ![r].pc = "returned",
                                           ![r].credits_balance = balance,
                                           ![r].status_code = 200]
           /\ db' = [db EXCEPT !.balance = balance,
                               !.scans[r] = Some([status |-> "completed",
                                   credits_used |-> requests[r].credits_required])]
    /\ UNCHANGED <<coreVars, searchVars, reportVars>>

\* search.py:101-105 and 166-172, the search raised: the failed scan is
\* committed, the user is not modified
request_fail(r) ==
    /\ requests[r].pc = "searching"
    /\ requests' = [requests EXCEPT ![r].pc = "raised", ![r].status_code = 500]
    /\ db' = [db EXCEPT !.scans[r] = Some([status |-> "failed",
                            credits_used |-> requests[r].credits_required])]
    /\ UNCHANGED <<coreVars, searchVars, reportVars>>


---------------------------------------------------------------------------
(* The endpoints that read scans (routers/search.py, routers/reports.py)   *)

\* the most scans stored
MaxScans == 2

\* two users, each the owner of the project of the same number; project 3
\* does not exist
UserArgs == {1, 2}
Projects == [p \in {1, 2} |-> [user_id |-> p]]
ProjectIdArgs == {1, 2, 3}

\* a stored Scan (models.py:95-122); executed_at is its place in the table
StoredScan(project_id, status, average_rank, top3_count, visibility_score) ==
    [project_id |-> project_id, status |-> status,
     average_rank |-> average_rank, top3_count |-> top3_count,
     visibility_score |-> visibility_score]

\* the scans a project may have: failed, or completed with an average of
\* 2.50 and a score of 65.00, with no rank found at all (no average, score
\* 0.00), or with every rank 1 (average 1.00, score 100.00)
StoredScanArgs ==
    {StoredScan(p, "failed", None, 0, None) : p \in {1, 2}}
    \cup {StoredScan(p, "completed", Some(250), 4, Some(6500)) : p \in {1, 2}}
    \cup {StoredScan(p, "completed", None, 0, Some(0)) : p \in {1, 2}}
    \cup {StoredScan(p, "completed", Some(100), 9, Some(10000)) : p \in {1, 2}}

StoreArgs ==
    {[projects |-> Projects, scans |-> t] :
        t \in UNION {[1..n -> StoredScanArgs] : n \in 0..MaxScans}}

ScanIdArgs == 1..(MaxScans + 1)

NoReply ==
    [endpoint |-> "none", user |-> 0, status_code |-> 0, scans |-> {},
     changes |-> None]

\* the response of an endpoint to a current_user: its status, the scans whose
\* points or metrics it returns or renders, and the changes it reports
Reply(endpoint, current_user, status_code, scans, changes) ==
    [endpoint |-> endpoint, user |-> current_user, status_code |-> status_code,
     scans |-> scans, changes |-> changes]

\* select(Project).where(Project.id == project_id,
\*                       Project.user_id == current_user.id) finds a row
owned_project(project_id, current_user) ==
    /\ project_id \in DOMAIN store.projects
    /\ store.projects[project_id].user_id = current_user

\* select(Scan).where(Scan.id == scan_id) finds a row
scan_exists(scan_id) == scan_id \in DOMAIN store.scans

\* the completed scans of a project executed before the time `before`
completed_before(project_id, before) ==
    {s \in DOMAIN store.scans :
        /\ store.scans[s].project_id = project_id
        /\ store.scans[s].status = "completed"
        /\ s < before}

\* order_by(Scan.executed_at.desc()).limit(limit) of a set of scans
RECURSIVE latest(_, _)
latest(S, limit) ==
    IF S = {} \/ limit <= 0 THEN <<>>
    ELSE LET s == CHOOSE x \in S : \A y \in S : y <= x
         IN  <<s>> \o latest(S \ {s}, limit - 1)

\* the set of the elements of a sequence
Range(seq) == {seq[k] : k \in DOMAIN seq}

\* search.py:175-221
get_search_history(current_user, project_id, limit) ==
    IF ~owned_project(project_id, current_user)
    THEN Reply("get_search_history", current_user, 404, {}, None)
    ELSE Reply("get_search_history", current_user, 200,
               Range(latest(completed_before(project_id, MaxScans + 2), limit)),
               None)

\* search.py:223-270
get_scan_details(current_user, scan_id) ==
    IF ~scan_exists(scan_id)
    THEN Reply("get_scan_details", current_user, 404, {}, None)
    ELSE IF store.projects[store.scans[scan_id].project_id].user_id # current_user
    THEN Reply("get_scan_details", current_user, 403, {}, None)
    ELSE Reply("get_scan_details", current_user, 200, {scan_id}, None)

\* reports.py:322-380; a scan has points once it is completed
get_heatmap_image(current_user, scan_id) ==
    IF ~scan_exists(scan_id)
    THEN Reply("get_heatmap_image", current_user, 404, {}, None)
    ELSE IF ~owned_project(store.scans[scan_id].project_id, current_user)
    THEN Reply("get_heatmap_image", current_user, 403, {}, None)
    ELSE IF store.scans[scan_id].status # "completed"
    THEN Reply("get_heatmap_image", current_user, 404, {}, None)
    ELSE Reply("get_heatmap_image", current_user, 200, {scan_id}, None)

\* reports.py:186-320: the scan of scan_id when one is given, else the
\* latest completed scan of the project, and the completed scan of the
\* project before it
generate_pdf(current_user, project_id, scan_id) ==
    IF ~owned_project(project_id, current_user)
    THEN Reply("generate_pdf", current_user, 404, {}, None)
    ELSE LET found == IF scan_id # None
                      THEN IF scan_exists(scan_id[1]) THEN <<scan_id[1]>>
                           ELSE <<>>
                      ELSE latest(completed_before(project_id, MaxScans + 2), 1)
         IN  IF found = <<>>
             THEN Reply("generate_pdf", current_user, 404, {}, None)
             ELSE Reply("generate_pdf", current_user, 200,
                        {found[1]} \cup
                          Range(latest(completed_before(project_id, found[1]), 1)),
                        None)

\* the truth value Python gives an optional Decimal: None and 0 are false
truthy(value) == value # None /\ value[1] # 0

\* the changes of the weekly comparison, each a number or None
Changes(arp_change, top3_change, visibility_change) ==
    [arp_change |-> arp_change, top3_change |-> top3_change,
     visibility_change |-> visibility_change]

\* reports.py:126-138; averages and scores are counted in hundredths, which
\* float() of a difference of two Numeric(5, 2) values keeps
compare_scans(current_scan, prev_scan) ==
    Changes(IF truthy(current_scan.average_rank) /\ truthy(prev_scan.average_rank)
            THEN Some(prev_scan.average_rank[1] - current_scan.average_rank[1])
            ELSE None,
            Some(current_scan.top3_count - prev_scan.top3_count),
            IF truthy(current_scan.visibility_score)
               /\ truthy(prev_scan.visibility_score)
            THEN Some(current_scan.visibility_score[1]
                        - prev_scan.visibility_score[1])
            ELSE None)

\* reports.py:88-184
get_weekly_comparison(current_user, project_id) ==
    IF ~owned_project(project_id, current_user)
    THEN Reply("get_weekly_comparison", current_user, 404, {}, None)
    ELSE LET scans == latest(completed_before(project_id, MaxScans + 2), 2)
         IN  IF scans = <<>>
             THEN Reply("get_weekly_comparison", current_user, 404, {}, None)
             ELSE Reply("get_weekly_comparison", current_user, 200, Range(scans),
                        Some(IF Len(scans) > 1
                             THEN compare_scans(store.scans[scans[1]],
                                                store.scans[scans[2]])
                             ELSE Changes(None, None, None)))

\* the default of `limit` in get_search_history (search.py:178)
DefaultLimit == 10

get_search_history_call ==
    /\ \E current_user \in UserArgs, project_id \in ProjectIdArgs,
          limit \in {1, DefaultLimit} :
            reply' = get_search_history(current_user, project_id, limit)
    /\ UNCHANGED <<store, coreVars, searchVars, concVars>>

get_scan_details_call ==
    /\ \E current_user \in UserArgs, scan_id \in ScanIdArgs :
            reply' = get_scan_details(current_user, scan_id)
    /\ UNCHANGED <<store, coreVars, searchVars, concVars>>

get_heatmap_image_call ==
    /\ \E current_user \in UserArgs, scan_id \in ScanIdArgs :
            reply' = get_heatmap_image(current_user, scan_id)
    /\ UNCHANGED <<store, coreVars, searchVars, concVars>>

generate_pdf_call ==
    /\ \E current_user \in UserArgs, project_id \in ProjectIdArgs,
          scan_id \in {None} \cup {Some(s) : s \in ScanIdArgs} :
            reply' = generate_pdf(current_user, project_id, scan_id)
    /\ UNCHANGED <<store, coreVars, searchVars, concVars>>

get_weekly_comparison_call ==
    /\ \E current_user \in UserArgs, project_id \in ProjectIdArgs :
            reply' = get_weekly_comparison(current_user, project_id)
    /\ UNCHANGED <<store, coreVars, searchVars, concVars>>

---------------------------------------------------------------------------
(* The specification: one call of one of the core's functions, on any of   *)
(* the bounded inputs                                                      *)

\* no call of the core's functions made yet
CoreIdle ==
    /\ fn = "none"
    /\ args = [none |-> TRUE]
    /\ pc = "idle"
    /\ step_distance_m = <<0, 1>>
    /\ half_size = 0
    /\ meters_per_lng_degree = <<0, 1>>
    /\ row = 0
    /\ col = 0
    /\ points = <<>>
    /\ result = NoResult

Init ==
    /\ CoreIdle
    /\ settings = DefaultSettings
    /\ serp = SerpFound
    /\ user = [credits_balance |-> 100]
    /\ scan = None
    /\ scan_points = <<>>
    /\ es = EsIdle
    /\ ps = PsIdle
    /\ pending = {}
    /\ batch_results = <<>>
    /\ log = LogEmpty
    /\ db = DbOf(100)
    /\ requests = [r \in Requests |-> RequestIdle]
    /\ store = [projects |-> Projects, scans |-> <<>>]
    /\ reply = NoReply

Next ==
    \/ generate_geogrid_call
    \/ generate_geogrid_step
    \/ generate_geogrid_return
    \/ estimate_credits_call
    \/ calculate_average_rank_call
    \/ count_top3_call
    \/ count_top10_call
    \/ get_rank_color_call
    \/ status_color_call
    \/ get_rank_color_hex_call
    \/ fetch_rank_at_point_call
    \/ calculate_visibility_score_call
    \/ calculate_scan_stats_call

Spec == Init /\ [][Next]_vars

---------------------------------------------------------------------------
(* The specification of a search: one request to the endpoint, or one call  *)
(* of process_grid_search, under any configured batch size, any balance     *)
(* and any of the answers of the API                                       *)

SearchInit ==
    /\ CoreIdle
    /\ settings \in SettingsArgs
    /\ serp \in SerpArgs
    /\ user \in {[credits_balance |-> c] : c \in CreditArgs}
    /\ scan = None
    /\ scan_points = <<>>
    /\ es = EsIdle
    /\ ps = PsIdle
    /\ pending = {}
    /\ batch_results = <<>>
    /\ log = LogEmpty
    /\ db = DbOf(100)
    /\ requests = [r \in Requests |-> RequestIdle]
    /\ store = [projects |-> Projects, scans |-> <<>>]
    /\ reply = NoReply

SearchNext ==
    \/ process_grid_search_call
    \/ process_grid_search_enter
    \/ process_grid_search_batch
    \/ fetch_rank_at_point_done
    \/ process_grid_search_extend
    \/ process_grid_search_wake
    \/ process_grid_search_return
    \/ execute_search_call
    \/ execute_search_search
    \/ execute_search_complete
    \/ execute_search_respond
    \/ execute_search_refresh_fail
    \/ execute_search_fail

SearchSpec == SearchInit /\ [][SearchNext]_vars

\* the steps the event loop takes once a call is made: every request to the
\* API ends, with a response or with an error, within its timeout of 30 s
\* (serp.py:67), and asyncio.sleep ends after its delay
SearchProgress ==
    \/ process_grid_search_enter
    \/ process_grid_search_batch
    \/ fetch_rank_at_point_done
    \/ process_grid_search_extend
    \/ process_grid_search_wake
    \/ process_grid_search_return
    \/ execute_search_search
    \/ execute_search_complete
    \/ execute_search_respond
    \/ execute_search_refresh_fail
    \/ execute_search_fail

FairSearchSpec == SearchSpec /\ WF_vars(SearchProgress)

---------------------------------------------------------------------------
(* The specification of concurrent requests: each request runs in its own  *)
(* session, and the steps of different requests interleave at the awaits   *)

ConcurrentInit ==
    /\ CoreIdle
    /\ settings = DefaultSettings
    /\ serp = SerpFound
    /\ user = [credits_balance |-> 100]
    /\ scan = None
    /\ scan_points = <<>>
    /\ es = EsIdle
    /\ ps = PsIdle
    /\ pending = {}
    /\ batch_results = <<>>
    /\ log = LogEmpty
    /\ \E balance \in CreditArgs : db = DbOf(balance)
    /\ requests = [r \in Requests |-> RequestIdle]
    /\ store = [projects |-> Projects, scans |-> <<>>]
    /\ reply = NoReply

ConcurrentNext ==
    \/ \E r \in Requests : get_current_user(r)
    \/ \E r \in Requests : request_execute_search(r)
    \/ \E r \in Requests : request_complete(r)
    \/ \E r \in Requests : request_fail(r)

ConcurrentSpec == ConcurrentInit /\ [][ConcurrentNext]_vars

---------------------------------------------------------------------------
(* The specification of the reading endpoints: any sequence of requests of *)
(* the two users against any table of scans                                *)

ReportInit ==
    /\ CoreIdle
    /\ settings = DefaultSettings
    /\ serp = SerpFound
    /\ user = [credits_balance |-> 100]
    /\ scan = None
    /\ scan_points = <<>>
    /\ es = EsIdle
    /\ ps = PsIdle
    /\ pending = {}
    /\ batch_results = <<>>
    /\ log = LogEmpty
    /\ db = DbOf(100)
    /\ requests = [r \in Requests |-> RequestIdle]
    /\ store \in StoreArgs
    /\ reply = NoReply

ReportNext ==
    \/ get_search_history_call
    \/ get_scan_details_call
    \/ get_heatmap_image_call
    \/ generate_pdf_call
    \/ get_weekly_comparison_call

ReportSpec == ReportInit /\ [][ReportNext]_vars

---------------------------------------------------------------------------
(* Properties of the grid generator *)

Abs(n) == IF n < 0 THEN -n ELSE n

\* a call of generate_geogrid that passed the checks
Generating == fn = "generate_geogrid" /\ pc \in {"loop", "returned"}

\* a call of generate_geogrid that returned its points
Generated == fn = "generate_geogrid" /\ pc = "returned"

\* the arguments lie in the documented domain
ValidGridArgs ==
    /\ args.grid_size \in {3, 5, 7}
    /\ 0 < args.radius_km
    /\ args.radius_km <= 50000

\* C1: for grid_size 3, 5 or 7 and a radius in (0, 50] generate_geogrid
\* returns exactly grid_size * grid_size points, and estimate_credits
\* returns that same number
C1_PointAndCreditCount ==
    /\ (fn = "generate_geogrid" /\ pc \in {"returned", "raised"} /\ ValidGridArgs)
         => /\ result.kind = "return"
            /\ Len(result.value) = args.grid_size * args.grid_size
    /\ (fn = "generate_geogrid" /\ pc = "loop")
         => Len(points) <= args.grid_size * args.grid_size
    /\ (fn = "estimate_credits" /\ pc # "idle" /\ args.grid_size \in {3, 5, 7})
         => /\ result.kind = "return"
            /\ result.value = args.grid_size * args.grid_size

C1_Witness ==
    /\ Generated
    /\ args.grid_size = 7
    /\ Len(result.value) = 49

\* C2: the points are in row-major order: the k-th point (counting from 0)
\* has row k div grid_size and column k mod grid_size, and a returned grid
\* holds every (row, column) pair exactly once
C2_RowMajorOrder ==
    Generating =>
        /\ \A i \in DOMAIN points :
              /\ points[i].y = (i - 1) \div args.grid_size
              /\ points[i].x = (i - 1) % args.grid_size
        /\ pc = "returned" =>
              \A r \in 0..(args.grid_size - 1), c \in 0..(args.grid_size - 1) :
                  Cardinality({i \in DOMAIN result.value :
                                  result.value[i].y = r /\ result.value[i].x = c}) = 1

C2_Witness ==
    /\ Generated
    /\ args.grid_size = 5
    /\ result.value[8].y = 1
    /\ result.value[8].x = 2

\* C3: the point at index (grid_size * grid_size - 1) / 2 has row = column =
\* (grid_size - 1) / 2, lies zero metres from the centre on both axes, and its
\* latitude and longitude are within 1e-4 degrees of the input centre
C3_CenterPoint ==
    Generated =>
        LET n == args.grid_size
            p == result.value[((n * n - 1) \div 2) + 1]
        IN  /\ 2 * p.y = n - 1
            /\ 2 * p.x = n - 1
            /\ offset_lat_m(half_size, p.y, step_distance_m)[1] = 0
            /\ offset_lng_m(half_size, p.x, step_distance_m)[1] = 0
            /\ Abs(10 * p.latitude - args.center_lat) <= 1000
            /\ Abs(10 * p.longitude - args.center_lng) <= 1000

C3_Witness ==
    /\ Generated
    /\ args.grid_size = 7
    /\ args.center_lat = 368698976
    /\ result.value[25].latitude = 36869898
    /\ result.value[25].x = 3

\* C4: generate_geogrid and estimate_credits fail with the validation error
\* (Python's ValueError), yielding no points and no credit figure, for every
\* grid_size other than 3, 5 and 7, whatever the other arguments are
C4_InvalidGridSizeFails ==
    (/\ fn \in {"generate_geogrid", "estimate_credits"}
     /\ pc # "idle"
     /\ args.grid_size \notin {3, 5, 7})
        => /\ pc = "raised"
           /\ result.kind = "raise"
           /\ result.exc = "ValueError"
           /\ points = <<>>

C4_Witness ==
    /\ fn = "generate_geogrid"
    /\ args.grid_size = 4
    /\ args.radius_km = 2000
    /\ pc = "raised"

\* C5: generate_geogrid fails for every radius_km <= 0 and every
\* radius_km > 50, succeeds for every radius_km in (0, 50] when grid_size is
\* valid, and never produces coordinates for a radius outside (0, 50]
C5_RadiusDomain ==
    (fn = "generate_geogrid" /\ pc # "idle") =>
        /\ (args.radius_km <= 0 \/ args.radius_km > 50000)
              => /\ pc = "raised"
                 /\ result.kind = "raise"
                 /\ result.exc = "ValueError"
                 /\ points = <<>>
        /\ ValidGridArgs
              => /\ pc \in {"loop", "returned"}
                 /\ pc = "returned" => result.kind = "return"
        /\ pc \in {"loop", "returned"}
              => (0 < args.radius_km /\ args.radius_km <= 50000)

C5_Witness ==
    /\ Generated
    /\ args.radius_km = 50000
    /\ Len(result.value) = 9

\* a < b for rationals with positive denominators
RatLess(a, b) == a[1] * b[2] < b[1] * a[2]

\* C6: row 0 is the northernmost row and column 0 the westernmost column: the
\* latitude offset strictly decreases as the row grows, the longitude offset
\* strictly increases as the column grows, the latitude of a point depends
\* only on its row and its longitude only on its column
C6_Orientation ==
    Generating =>
        /\ \A r \in 0..(args.grid_size - 2) :
              RatLess(offset_lat_m(half_size, r + 1, step_distance_m),
                      offset_lat_m(half_size, r, step_distance_m))
        /\ \A c \in 0..(args.grid_size - 2) :
              RatLess(offset_lng_m(half_size, c, step_distance_m),
                      offset_lng_m(half_size, c + 1, step_distance_m))
        /\ \A i \in DOMAIN points, j \in DOMAIN points :
              /\ points[i].y = points[j].y => points[i].latitude = points[j].latitude
              /\ points[i].x = points[j].x => points[i].longitude = points[j].longitude
              /\ points[i].y < points[j].y => points[i].latitude >= points[j].latitude
              /\ points[i].x < points[j].x => points[i].longitude <= points[j].longitude

C6_Witness ==
    /\ Generated
    /\ args.grid_size = 3
    /\ args.center_lat = -531301024
    /\ result.value[1].latitude > result.value[7].latitude
    /\ result.value[1].longitude < result.value[3].longitude
    /\ result.value[3].longitude = result.value[9].longitude

C8_LabelsPoint ==
    Generating =>
        \A i \in DOMAIN points :
            points[i].label = <<"Point", points[i].y, points[i].x>>

\* C8 as amended: every point carries the label "Ponto_{row}_{column}" built
\* from its own row and column, so for grid_size 3 the labels are Ponto_0_0 to
\* Ponto_2_2 in row-major order
C8_LabelsPonto ==
    Generating =>
        /\ \A i \in DOMAIN points :
              points[i].label = <<"Ponto", points[i].y, points[i].x>>
        /\ (pc = "returned" /\ args.grid_size = 3) =>
              [i \in 1..9 |-> result.value[i].label] =
                  << <<"Ponto", 0, 0>>, <<"Ponto", 0, 1>>, <<"Ponto", 0, 2>>,
                     <<"Ponto", 1, 0>>, <<"Ponto", 1, 1>>, <<"Ponto", 1, 2>>,
                     <<"Ponto", 2, 0>>, <<"Ponto", 2, 1>>, <<"Ponto", 2, 2>> >>

C8_Witness ==
    /\ Generated
    /\ args.grid_size = 3
    /\ result.value[6].label = <<"Ponto", 1, 2>>

---------------------------------------------------------------------------
(* Properties of the statistics *)

\* the positions of the present ranks
Present(ranks) == {i \in DOMAIN ranks : ranks[i] # None}

RECURSIVE SumAt(_, _)
SumAt(ranks, I) ==
    IF I = {} THEN 0
    ELSE LET i == CHOOSE j \in I : TRUE
         IN  ranks[i][1] + SumAt(ranks, I \ {i})

\* C9: calculate_average_rank returns None exactly when no rank is present;
\* otherwise it returns the mean of the present ranks alone, rounded to 2
\* decimals: the result (in hundredths) is within half a hundredth of
\* (sum of the present ranks) / (number of present ranks)
C9_AverageOfPresentRanks ==
    (fn = "calculate_average_rank" /\ pc = "returned") =>
        LET I == Present(args.ranks)
            n == Cardinality(I)
        IN  /\ result.kind = "return"
            /\ (result.value = None) <=> (I = {})
            /\ I # {} =>
                  2 * Abs(100 * SumAt(args.ranks, I) - result.value[1] * n) <= n

C9_Witness ==
    /\ fn = "calculate_average_rank"
    /\ pc = "returned"
    /\ args.ranks = <<Some(1), None, Some(2)>>
    /\ result.value = Some(150)

\* C10: count_top3 returns the number of present ranks <= 3 and count_top10
\* the number of present ranks <= 10; absent ranks are counted by neither
C10_TopCounts ==
    /\ (fn = "count_top3" /\ pc = "returned") =>
          result.value =
              Cardinality({i \in Present(args.ranks) : args.ranks[i][1] <= 3})
    /\ (fn = "count_top10" /\ pc = "returned") =>
          result.value =
              Cardinality({i \in Present(args.ranks) : args.ranks[i][1] <= 10})

C10_Witness ==
    /\ fn = "count_top3"
    /\ pc = "returned"
    /\ args.ranks = <<Some(3), None, Some(4)>>
    /\ result.value = 1

---------------------------------------------------------------------------
(* Properties of the colour, the score and the bundled statistics *)

\* C11: get_rank_color returns green for every present rank <= 3, yellow for
\* every present rank from 4 to 10, red for an absent rank and for every
\* present rank > 10, and nothing else
C11_RankColor ==
    (fn = "get_rank_color" /\ pc # "idle") =>
        LET r == args.rank
        IN  /\ result.kind = "return"
            /\ result.value \in {"green", "yellow", "red"}
            /\ (r # None /\ r[1] <= 3) => result.value = "green"
            /\ (r # None /\ 4 <= r[1] /\ r[1] <= 10) => result.value = "yellow"
            /\ (r = None \/ r[1] > 10) => result.value = "red"

C11_Witness ==
    /\ fn = "get_rank_color"
    /\ args.rank = Some(10)
    /\ result.value = "yellow"

\* the sum of the ranks, an absent rank counting 20
SumWithWorst(ranks) ==
    SumAt(ranks, Present(ranks)) + 20 * (Len(ranks) - Cardinality(Present(ranks)))

\* a call of calculate_visibility_score with a grid_size of 3, 5 or 7
ScoreCall ==
    /\ fn = "calculate_visibility_score"
    /\ pc # "idle"
    /\ args.grid_size \in {3, 5, 7}

\* v hundredths is 100 * n / d rounded to 2 decimals
IsRounded(v, n, d) == 2 * Abs(10000 * n - v * d) <= d

MixedRanks ==
    /\ Len(args.ranks) = args.grid_size * args.grid_size
    /\ \A i \in Present(args.ranks) : args.ranks[i][1] >= 1
    /\ \E i \in DOMAIN args.ranks : args.ranks[i] # Some(1)
    /\ Present(args.ranks) # {}

\* C13 as claimed: every mixed sequence yields a score strictly between 0
\* and 100
C13_MixedStrictlyBetween ==
    (ScoreCall /\ MixedRanks) =>
        (0 < result.value /\ result.value < 10000)

\* C13 as amended: a mixed sequence yields a score strictly between 0 and 100
\* when its ranks, an absent rank counting 20, sum to less than 20 * N2, and
\* the score 0 when they sum to 20 * N2 or more
C13_MixedBelowWorstSum ==
    (ScoreCall /\ MixedRanks) =>
        LET worst == 20 * args.grid_size * args.grid_size
        IN  /\ SumWithWorst(args.ranks) < worst
                => (0 < result.value /\ result.value < 10000)
            /\ SumWithWorst(args.ranks) >= worst => result.value = 0

C13_Witness ==
    /\ ScoreCall
    /\ MixedRanks
    /\ args.ranks = <<Some(1)>> \o Repeat(None, 8)
    /\ result.value = 1111

\* C14: for grid_size 3, 5 or 7 and every sequence of optional ranks, all
\* absent included, calculate_scan_stats returns a ScanStats whose arp, top3,
\* top10 and visibility_score are the results of calculate_average_rank,
\* count_top3, count_top10 and calculate_visibility_score on the same
\* arguments and whose total_points is grid_size * grid_size
C14_ScanStatsBundle ==
    (fn = "calculate_scan_stats" /\ pc # "idle" /\ args.grid_size \in {3, 5, 7}) =>
        /\ result.kind = "return"
        /\ result.value.arp = calculate_average_rank(args.ranks)
        /\ result.value.top3 = count_top3(args.ranks)
        /\ result.value.top10 = count_top10(args.ranks)
        /\ Return(result.value.visibility_score) =
              calculate_visibility_score(args.ranks, args.grid_size)
        /\ result.value.total_points = args.grid_size * args.grid_size
        /\ Present(args.ranks) = {} => result.value.arp = None

C14_Witness ==
    /\ fn = "calculate_scan_stats"
    /\ args.grid_size = 3
    /\ args.ranks = TestStatsRanks
    /\ result.value = ScanStats(Some(586), 3, 6, 5789, 9)

\* C15: calculate_visibility_score and calculate_scan_stats fail with the
\* validation error for every grid_size other than 3, 5 and 7
C15_InvalidGridSizeRejected ==
    (/\ fn \in {"calculate_visibility_score", "calculate_scan_stats"}
     /\ pc # "idle"
     /\ args.grid_size \notin {3, 5, 7})
        => /\ result.kind = "raise"
           /\ result.exc = "ValueError"

---------------------------------------------------------------------------
(* Properties of the batched lookups and of the search endpoint *)

\* the rank the API's answer gives the k-th point
RankAt(k) ==
    IF serp[k].kind = "ok"
    THEN IF serp[k].local # None THEN serp[k].local ELSE serp[k].organic
    ELSE None

\* a result carries the position and the coordinates of a point
Carries(r, p) ==
    /\ r.grid_x = p.x
    /\ r.grid_y = p.y
    /\ r.latitude = p.latitude
    /\ r.longitude = p.longitude

\* C16: whatever the batch size and the order in which the lookups of a
\* batch end, the k-th result of process_grid_search carries grid_x, grid_y,
\* latitude and longitude of the k-th input point and the rank found for
\* that point, so the ranks extracted for the aggregator follow the
\* row-major order of the generated grid
C16_OrderPreserved ==
    /\ \A k \in 1..Len(ps.results) :
            /\ Carries(ps.results[k], ps.points[k])
            /\ ps.results[k].rank_position = RankAt(k)
    /\ ps.pc = "returned" =>
            /\ Len(ps.result.value) = Len(ps.points)
            /\ extract_ranks_from_results(ps.result.value)
                 = [k \in 1..Len(ps.points) |-> RankAt(k)]
    /\ (ps.pc = "returned" /\ es.pc = "searching") =>
            \A k \in 1..Len(ps.result.value) :
                /\ ps.result.value[k].grid_x = (k - 1) % es.grid_size
                /\ ps.result.value[k].grid_y = (k - 1) \div es.grid_size

C16_Witness ==
    /\ ps.pc = "returned"
    /\ es.pc = "searching"
    /\ log.overtaken
    /\ serp = SerpFound
    /\ ps.batch_size = 3
    /\ Len(ps.result.value) = 25

\* C19: at most batch_size lookups are in flight and all of them belong to
\* the current batch; while a batch is in flight every earlier point has its
\* result collected and as many delays have elapsed as batches came before;
\* a delay is taken only while points remain, so none follows the last batch
C19_BoundedBatches ==
    /\ Cardinality(pending) <= settings.serp_batch_size
    /\ \A k \in pending : ps.i < k /\ k <= ps.i + ps.batch_size
    /\ ps.pc # "gather" => pending = {}
    /\ ps.pc = "gather" =>
            /\ Len(ps.results) = ps.i
            /\ log.delays = log.batches - 1
            /\ \A k \in 1..Len(ps.points) :
                    log.issued[k] > 0 <=> k <= ps.i + ps.batch_size
    /\ ps.pc = "sleep" =>
            /\ ps.i + ps.batch_size < Len(ps.points)
            /\ log.delays = log.batches - 1
    /\ (ps.pc = "returned" /\ log.batches > 0) =>
            log.delays = log.batches - 1

C19_Witness ==
    /\ ps.pc = "returned"
    /\ Len(ps.points) = 6
    /\ ps.batch_size = 2
    /\ log.batches = 3
    /\ log.delays = 2
    /\ log.overtaken

\* the least number of batches of batch_size points that hold n points
Ceil(n, batch_size) == (n + batch_size - 1) \div batch_size

\* every one of the n points was looked up once and no other
OneLookupPerPoint ==
    \A k \in DOMAIN log.issued :
        log.issued[k] = IF k <= Len(ps.points) THEN 1 ELSE 0

\* C20 as stated: on return there were ceil(n / batch_size) - 1 delays, for
\* every list of points
C20_DelaysOneLessThanBatches ==
    ps.pc = "returned" =>
        log.delays = Ceil(Len(ps.points), ps.batch_size) - 1

\* C20: once the key is resolved process_grid_search returns, and on return
\* it has issued one lookup per point in ceil(n / batch_size) batches, has
\* slept between consecutive batches only (ceil(n / batch_size) - 1 times,
\* and never for an empty list), and returns n results
C20_TerminatesWithCounts ==
    /\ [](ps.pc = "returned" =>
            /\ OneLookupPerPoint
            /\ log.batches = Ceil(Len(ps.points), ps.batch_size)
            /\ log.delays = IF Len(ps.points) = 0 THEN 0
                            ELSE Ceil(Len(ps.points), ps.batch_size) - 1
            /\ Len(ps.result.value) = Len(ps.points))
    /\ (ps.pc = "loop") ~> (ps.pc = "returned")

C20_Witness ==
    /\ ps.pc = "returned"
    /\ Len(ps.points) = 7
    /\ ps.batch_size = 3
    /\ log.batches = 3
    /\ log.delays = 2
    /\ Len(ps.result.value) = 7

\* C17: once execute_search completed, grid_size * grid_size ScanPoints are
\* persisted, the k-th with the column, the row and the coordinates of the
\* k-th generated point and the rank found for that point, and the scan's
\* credits_used is that number of points
C17_ScanPointsAligned ==
    es.pc = "returned" =>
        /\ scan[1].status = "completed"
        /\ Len(scan_points) = es.grid_size * es.grid_size
        /\ Len(es.points) = Len(scan_points)
        /\ scan[1].credits_used = Len(scan_points)
        /\ \A k \in 1..Len(scan_points) :
            /\ scan_points[k].grid_x = (k - 1) % es.grid_size
            /\ scan_points[k].grid_y = (k - 1) \div es.grid_size
            /\ es.points[k].label
                 = label_of(scan_points[k].grid_y, scan_points[k].grid_x)
            /\ scan_points[k].latitude = es.points[k].latitude
            /\ scan_points[k].longitude = es.points[k].longitude
            /\ scan_points[k].rank_position = RankAt(k)

C17_Witness ==
    /\ es.pc = "returned"
    /\ es.grid_size = 7
    /\ serp = SerpMixed
    /\ log.overtaken
    /\ Len(scan_points) = 49
    /\ scan[1].credits_used = 49
    /\ user.credits_balance = 51

---------------------------------------------------------------------------
(* Failures, rejections and the life of a scan *)

\* the lookup of the k-th point failed: the request raised or timed out, or
\* the response has another status than 200
LookupFailed(k) == serp[k].kind \in {"exception", "status"}

\* the result of a lookup in which the business is in neither list
NotFoundAt(point) == fetch_rank_at_point(point, Ok(None, None))

\* C21: the result of a failed lookup has no rank and an error entry in
\* serp_data, and its rank is the one of a lookup that did not find the
\* business; process_grid_search raises only when no API key is available,
\* and a search fails only for that reason
C21_FailedLookupIsAbsentRank ==
    /\ \A k \in 1..Len(ps.results) :
            LookupFailed(k) =>
                /\ ps.results[k].rank_position = None
                /\ DOMAIN ps.results[k].serp_data = {"error"}
                /\ ps.results[k].rank_position
                     = NotFoundAt(ps.points[k]).rank_position
    /\ ps.pc = "raised" =>
            /\ ps.api_key = ""
            /\ settings.scale_serp_api_key = ""
            /\ ps.results = <<>>
            /\ \A k \in DOMAIN log.issued : log.issued[k] = 0
    /\ (scan # None /\ scan[1].status = "failed" /\ ~es.db_error) =>
            settings.scale_serp_api_key = ""

C21_Witness ==
    /\ es.pc = "returned"
    /\ scan[1].status = "completed"
    /\ serp = SerpMixed
    /\ LookupFailed(1)
    /\ LookupFailed(4)
    /\ scan_points[1].rank_position = None
    /\ scan_points[4].rank_position = None
    /\ scan_points[3].rank_position = Some(2)

\* execute_search answered with the HTTP error of that status
Rejected(status_code) ==
    /\ es.pc = "raised"
    /\ es.response.exc = "HTTPException"
    /\ es.response.status_code = status_code

\* nothing was created, generated, looked up or deducted
NoEffect ==
    /\ scan = None
    /\ scan_points = <<>>
    /\ es.points = <<>>
    /\ ps = PsIdle
    /\ pending = {}
    /\ log = LogEmpty

\* C22: a request of a user whose balance is below estimate_credits of the
\* grid size is answered 402, and only such a request is; the step that
\* rejects it creates no Scan, generates no grid, issues no lookup and
\* leaves credits_balance as it was, and nothing happens afterwards
C22_RejectedBeforeAnyEffect ==
    /\ [][(es.pc = "idle" /\ es'.pc # "idle" /\ es'.grid_size # 0) =>
            /\ Rejected(402)' <=>
                 user.credits_balance < estimate_credits(es'.grid_size).value
            /\ Rejected(402)' => (NoEffect' /\ user' = user)]_vars
    /\ [](Rejected(402) =>
            /\ NoEffect
            /\ user.credits_balance < estimate_credits(es.grid_size).value)

C22_Witness ==
    /\ Rejected(402)
    /\ es.grid_size = 7
    /\ user.credits_balance = 30
    /\ NoEffect

\* the request was answered, with a response or with an error
Answered == es.pc \in {"returned", "raised"}

\* the balance went down by the scan's credits_used exactly when the scan
\* is completed
ChargedIffCompleted ==
    /\ scan[1].status = "completed" =>
            /\ scan[1].credits_used = es.grid_size * es.grid_size
            /\ user.credits_balance = es.balance_at_call - scan[1].credits_used
    /\ scan[1].status = "failed" =>
            user.credits_balance = es.balance_at_call

\* the scan is running from its creation until the search ended
StartsRunning ==
    es.pc \in {"flushed", "searching"} =>
        (scan # None /\ scan[1].status = "running")

ScanLifecycleWithoutDbError ==
    /\ StartsRunning
    /\ (Answered /\ scan # None /\ ~es.db_error) =>
            /\ scan[1].status \in {"completed", "failed"}
            /\ ChargedIffCompleted

---------------------------------------------------------------------------
(* Concurrent requests of one user *)

\* credits_used of the scan of request r if it is committed as completed
CompletedCredits(r) ==
    IF db.scans[r] # None /\ db.scans[r][1].status = "completed"
    THEN db.scans[r][1].credits_used ELSE 0

\* the sum of credits_used over the completed scans of the requests 1..n
RECURSIVE SumCompleted(_)
SumCompleted(n) ==
    IF n = 0 THEN 0 ELSE CompletedCredits(n) + SumCompleted(n - 1)

\* C24: whatever the interleaving of the requests of one user, the
\* committed credits_balance is never negative and is the balance before
\* the requests minus the credits_used of the user's completed scans
C24_BalanceAccountsForScans ==
    /\ db.balance >= 0
    /\ db.balance = db.initial - SumCompleted(MaxRequests)

\* the committed balance itself never goes below zero
BalanceNeverNegative ==
    /\ db.balance >= 0
    /\ \A r \in Requests : requests[r].credits_balance >= 0

---------------------------------------------------------------------------
(* The classifiers of a rank and the bundle of statistics *)

\* the hex value heatmap.py gives each colour class
HexOf(colour) ==
    CASE colour = "green" -> "#22c55e"
      [] colour = "yellow" -> "#eab308"
      [] colour = "red" -> "#ef4444"

\* the colour class the claim names for a rank
ColourClass(rank) ==
    IF rank = None THEN "red"
    ELSE IF rank[1] <= 3 THEN "green"
    ELSE IF rank[1] <= 10 THEN "yellow"
    ELSE "red"

\* C25: for every optional rank ScanPoint.status_color returns the colour
\* get_rank_color returns, and get_rank_color_hex the hex value of that
\* colour: green up to 3, yellow from 4 to 10, red when absent or above 10
C25_ClassifiersAgree ==
    /\ (fn = "status_color" /\ pc = "returned") =>
            /\ result.value = get_rank_color(args.rank)
            /\ result.value = ColourClass(args.rank)
    /\ (fn = "get_rank_color_hex" /\ pc = "returned") =>
            /\ result.value = HexOf(get_rank_color(args.rank))
            /\ result.value = HexOf(status_color(args.rank))
            /\ result.value = HexOf(ColourClass(args.rank))

C25_Witness ==
    /\ fn = "status_color"
    /\ pc = "returned"
    /\ args.rank = Some(10)
    /\ result.value = "yellow"

\* the positions of the ranks get_rank_color gives one of the colours
Coloured(ranks, colours) ==
    {k \in DOMAIN ranks : get_rank_color(ranks[k]) \in colours}

\* C26: the ScanStats of a sequence of optional positive ranks has
\* 0 <= top3 <= top10 <= number of present ranks <= length; top3 is the
\* number of ranks get_rank_color calls green and top10 the number it calls
\* green or yellow; arp, when present, is at least the smallest and at most
\* the largest present rank
C26_StatsBounds ==
    (fn = "calculate_scan_stats" /\ pc = "returned") =>
        LET ranks == args.ranks
            stats == result.value
            present == Present(ranks)
        IN  /\ 0 <= stats.top3
            /\ stats.top3 <= stats.top10
            /\ stats.top10 <= Cardinality(present)
            /\ Cardinality(present) <= Len(ranks)
            /\ stats.top3 = Cardinality(Coloured(ranks, {"green"}))
            /\ stats.top10 = Cardinality(Coloured(ranks, {"green", "yellow"}))
            /\ stats.arp # None <=> present # {}
            /\ stats.arp # None =>
                    /\ \E k \in present :
                        /\ \A j \in present : ranks[k][1] <= ranks[j][1]
                        /\ 100 * ranks[k][1] <= stats.arp[1]
                    /\ \E k \in present :
                        /\ \A j \in present : ranks[j][1] <= ranks[k][1]
                        /\ stats.arp[1] <= 100 * ranks[k][1]

C26_Witness ==
    /\ fn = "calculate_scan_stats"
    /\ pc = "returned"
    /\ args.ranks = <<Some(3), Some(4), Some(10), Some(11)>>
    /\ result.value.top3 = 1
    /\ result.value.top10 = 3
    /\ result.value.arp = Some(700)

---------------------------------------------------------------------------
(* The rank a lookup reports *)

\* the positions (from 1) of the results whose title or name contains the
\* business name, letter case aside
MatchingPositions(results, business_name) ==
    {k \in 1..Len(results) :
        \/ contains(lower(business_name), lower(get(results[k].title, <<>>)))
        \/ contains(lower(business_name), lower(get(results[k].name, <<>>)))}

\* the first of them, if any
FirstMatch(results, business_name) ==
    LET M == MatchingPositions(results, business_name)
    IN  IF M = {} THEN None
        ELSE Some(CHOOSE k \in M : \A j \in M : k <= j)

\* the first match of local_results, else the first match of organic_results
LocalBeforeOrganic(data, business_name) ==
    LET local == FirstMatch(get(data.local_results, <<>>), business_name)
    IN  IF local # None THEN local
        ELSE FirstMatch(get(data.organic_results, <<>>), business_name)

LookupReturned == fn = "fetch_rank_at_point" /\ pc = "returned"

\* the rank is the position of the first matching result, local_results
\* searched before organic_results
RankIsFirstMatch ==
    LookupReturned =>
        result.value.rank_position
            = LocalBeforeOrganic(args.data, args.business_name)

\* C27: the rank_position of a lookup, when present, is the position of the
\* first result whose title or name contains the business name, local
\* results before organic ones, and lies between 1 and 20, so that it adds
\* no more to rank_sum than an absent rank
C27_RankWithinTwenty ==
    /\ RankIsFirstMatch
    /\ (LookupReturned /\ result.value.rank_position # None) =>
            /\ 1 <= result.value.rank_position[1]
            /\ result.value.rank_position[1] <= 20
            /\ rank_or_worst(result.value.rank_position) <= rank_or_worst(None)


---------------------------------------------------------------------------
(* The endpoints that read scans                                           *)

\* the owner of the project of a stored scan
OwnerOf(scan_id) == store.projects[store.scans[scan_id].project_id].user_id

\* every scan a successful reply returns or renders belongs to the requester
OwnersScansOnly ==
    reply.status_code = 200 => \A s \in reply.scans : OwnerOf(s) = reply.user

\* C28: for every sequence of requests, get_scan_details, get_heatmap_image,
\* get_search_history and generate_pdf (an explicit scan_id included) never
\* return or render the points or metrics of a scan whose project belongs to
\* another user than the requester.  The code violates it: generate_pdf
\* selects the scan of an explicit scan_id by its id alone
\* (reports.py:210-213).
C28_OnlyOwnersScans ==
    reply.endpoint \in {"get_scan_details", "get_heatmap_image",
                        "get_search_history", "generate_pdf"}
        => OwnersScansOnly

\* what the code does keep: every endpoint but generate_pdf answers with the
\* requester's scans only, and generate_pdf with at most one foreign scan
OwnersScansExceptPdf ==
    /\ reply.endpoint # "generate_pdf" => OwnersScansOnly
    /\ reply.status_code = 200
         => Cardinality({s \in reply.scans : OwnerOf(s) # reply.user}) <= 1

\* the weekly comparison answered, and a previous completed scan exists
ComparedTwo ==
    /\ reply.endpoint = "get_weekly_comparison"
    /\ reply.status_code = 200
    /\ Cardinality(reply.scans) = 2

\* the later and the earlier of the two scans compared
CurrentScan == store.scans[CHOOSE s \in reply.scans : \A t \in reply.scans : t <= s]
PrevScan == store.scans[CHOOSE s \in reply.scans : \A t \in reply.scans : s <= t]

Top3ChangeRight ==
    reply.changes[1].top3_change
        = Some(CurrentScan.top3_count - PrevScan.top3_count)

ArpChangeRight ==
    (CurrentScan.average_rank # None /\ PrevScan.average_rank # None)
        => reply.changes[1].arp_change
             = Some(PrevScan.average_rank[1] - CurrentScan.average_rank[1])

VisibilityChangeRight ==
    reply.changes[1].visibility_change
        = Some(CurrentScan.visibility_score[1] - PrevScan.visibility_score[1])

\* C29: in the weekly comparison, whenever a previous completed scan exists,
\* top3_change is the current top3_count minus the previous one, arp_change
\* is the previous average_rank minus the current one when both are present,
\* and visibility_change is the current visibility_score minus the previous
\* one whenever both scans have a stored score, a score of 0 included.  The
\* code violates the last part: it tests the scores for truth
\* (reports.py:137), and a Decimal of 0 is false.
C29_WeeklyChanges ==
    ComparedTwo =>
        /\ Top3ChangeRight
        /\ ArpChangeRight
        /\ (CurrentScan.visibility_score # None /\ PrevScan.visibility_score # None)
              => VisibilityChangeRight

\* what the code does keep: the changes are right when neither score is 0,
\* and the change of the score is None when one is
WeeklyChangesOfNonzeroScores ==
    ComparedTwo =>
        /\ Top3ChangeRight
        /\ ArpChangeRight
        /\ IF truthy(CurrentScan.visibility_score) /\ truthy(PrevScan.visibility_score)
           THEN VisibilityChangeRight
           ELSE reply.changes[1].visibility_change = None

====
